---- MODULE Spec2Model ----
(***************************************************************************)
(* Model of api/api/identity.py: the snowflake encoder make_snowflake and  *)
(* the bucket mapper make_bucket / make_buckets.                           *)
(*                                                                         *)
(* Number representation.  The identifiers exceed the model checker's      *)
(* integer width, so a Python integer x is held as the pair <<hi, lo>>     *)
(* with x = hi * 2^22 + lo and 0 <= lo < 2^22, i.e. hi = x >> 22 and       *)
(* lo = x & (2^22 - 1) in Python's two's-complement semantics (hi may be   *)
(* negative).  A clock reading in milliseconds is held as <<q, r>> with    *)
(* value q * 10^9 + r and 0 <= r < 10^9.                                    *)
(***************************************************************************)
EXTENDS Integers, Sequences, FiniteSets, TLC

\* ------------------------------------------------------------ bounds ----
\* number of make_snowflake calls started in a concurrent run
MaxCalls == 2
\* number of make_snowflake calls in a sequential run (beyond one wrap)
MaxSeqCalls == 4100
\* number of make_snowflake calls started in a run of encoder calls only
MaxRaceCalls == 3

\* ------------------------------------------------- module constants ----
BUCKET_SIZE == 1000 * 60 * 60 * 24 * 7
DERAILED_EPOCH == <<1649, 325271415>>

MsBase == 1000000000
TwoPow12 == 4096
TwoPow17 == 131072
TwoPow22 == 4194304

None == <<>>

\* ----------------------------------------------------- environment -----
Threads == {1, 2}

\* epoch + d milliseconds as a clock reading, for -10^9 < d < 10^9
EpochPlus(d) ==
    LET r == DERAILED_EPOCH[2] + d
    IN  IF r < 0 THEN <<DERAILED_EPOCH[1] - 1, r + MsBase>>
        ELSE IF r >= MsBase THEN <<DERAILED_EPOCH[1] + 1, r - MsBase>>
        ELSE <<DERAILED_EPOCH[1], r>>

\* values int(time.time() * 1000) may return
ClockReadings ==
    { EpochPlus(d) : d \in {0 - 1, 0, BUCKET_SIZE - 1, BUCKET_SIZE} }

\* values threading.current_thread().ident and os.getpid() may return; live
\* threads have distinct idents, and the threads are numbered by ident
Idents == {3, 35, 40}
Pids == {6, 41}

\* counter values a run may start from (0 at import; 4095 after 4095 calls)
StartIncr == {0, 4095}

\* ------------------------------------------------------ arithmetic -----
\* Python's | on two naturals
RECURSIVE BitOr(_, _)
BitOr(a, b) ==
    IF a = 0 THEN b
    ELSE IF b = 0 THEN a
    ELSE 2 * BitOr(a \div 2, b \div 2)
         + (IF (a % 2 = 1) \/ (b % 2 = 1) THEN 1 ELSE 0)

\* current_ms - DERAILED_EPOCH
MsSub(a, b) == (a[1] - b[1]) * MsBase + (a[2] - b[2])

\* x << 22 for a machine-width x
LShift22(x) == <<x, 0>>

\* s >> 22
RShift22(s) == s[1]

\* s | v for 0 <= v < 2^22
OrLow(s, v) == <<s[1], BitOr(s[2], v)>>

\* a < b on identifiers
IdLess(a, b) == (a[1] < b[1]) \/ (a[1] = b[1] /\ a[2] < b[2])

\* variant: the quotient is rounded to the nearest integer (round(a / b))
IntTrueDivRounded(a, b) ==
    (a \div b) + (IF 2 * (a % b) >= b THEN 1 ELSE 0)

\* variant: floor division (a // b)
IntTrueDivFloor(a, b) == a \div b

\* int(a / b) for b > 0: true division, then truncation toward zero
IntTrueDiv(a, b) == IF a >= 0 THEN a \div b ELSE 0 - ((0 - a) \div b)

\* --------------------------------------------------------- state -------
VARIABLES
    INCR,        \* the module global INCR
    pid,         \* os.getpid() of the process
    ident,       \* ident[t]: threading.current_thread().ident of thread t
    pc,          \* pc[t]: position of thread t inside make_snowflake
    current_ms,  \* current_ms[t]: the local current_ms
    epoch,       \* epoch[t]: the local epoch
    seen,        \* seen[t]: the value of INCR read at line 23
    loaded,      \* loaded[t]: the value of INCR loaded by INCR += 1
    entered,     \* entered[t]: INCR when thread t entered its call
    incr0,       \* INCR at the start of the run
    started,     \* number of make_snowflake calls started
    completed,   \* number of make_snowflake calls that returned
    first,       \* record of the first call that returned (or None)
    last,        \* record of the latest call that returned (or None)
    bcall        \* record of the latest make_bucket / make_buckets call

vars == <<INCR, pid, ident, pc, current_ms, epoch, seen, loaded, entered,
          incr0, started, completed, first, last, bcall>>

\* the locals of the threads inside make_snowflake
locals == <<pc, current_ms, epoch, seen, loaded, entered>>

\* ----------------------------------------------- make_snowflake --------
\* variant: the time field is left unshifted (<< 22 dropped)
EpochBitsNoShift(ms, tid, p) ==
    LET e == MsSub(ms, DERAILED_EPOCH)
    IN  OrLow(OrLow(<<e \div TwoPow22, e % TwoPow22>>,
                    (tid % 32) * TwoPow17),
              (p % 32) * TwoPow12)

\* variant: the subtraction is written DERAILED_EPOCH - current_ms
EpochBitsSwapped(ms, tid, p) ==
    OrLow(OrLow(LShift22(MsSub(DERAILED_EPOCH, ms)),
                (tid % 32) * TwoPow17),
          (p % 32) * TwoPow12)

\* variant: the thread discriminator is taken mod 31
EpochBitsMod31(ms, tid, p) ==
    OrLow(OrLow(LShift22(MsSub(ms, DERAILED_EPOCH)),
                (tid % 31) * TwoPow17),
          (p % 32) * TwoPow12)

\* variant: the thread discriminator is shifted by 16 instead of 17
EpochBitsThread16(ms, tid, p) ==
    OrLow(OrLow(LShift22(MsSub(ms, DERAILED_EPOCH)),
                (tid % 32) * (TwoPow17 \div 2)),
          (p % 32) * TwoPow12)

\* lines 16-19: the time field and the two discriminators
EpochBits(ms, tid, p) ==
    OrLow(OrLow(LShift22(MsSub(ms, DERAILED_EPOCH)),
                (tid % 32) * TwoPow17),
          (p % 32) * TwoPow12)

\* variant: the counter is ORed in unmasked (% 4096 dropped)
WithCounterUnmasked(e, incr) == OrLow(e, incr)

\* variant: the counter is masked to 11 bits (% 2048)
WithCounterMask11(e, incr) == OrLow(e, incr % 2048)

\* line 23: epoch |= INCR % 4096
WithCounter(e, incr) == OrLow(e, incr % TwoPow12)

\* line 25: the value stored by INCR += 1 from the value it loaded
Incremented(v) == v + 1

CallRecord(t, ms, c0, c, id) ==
    [thread |-> t, ms |-> ms, ident |-> ident[t], pid |-> pid,
     index |-> completed, entry |-> c0, read |-> c, id |-> id]

Returned(rec) ==
    /\ completed' = completed + 1
    /\ first' = IF first = None THEN <<rec>> ELSE first
    /\ last' = <<rec>>

\* line 14-19: read the clock, build the time and discriminator fields;
\* cap bounds the number of calls of the run
EnterCall(t, ms, cap) ==
    /\ pc[t] = "idle"
    /\ started < cap
    /\ started' = started + 1
    /\ current_ms' = [current_ms EXCEPT ![t] = ms]
    /\ epoch' = [epoch EXCEPT ![t] = EpochBits(ms, ident[t], pid)]
    /\ entered' = [entered EXCEPT ![t] = INCR]
    /\ pc' = [pc EXCEPT ![t] = "line23"]
    /\ UNCHANGED <<INCR, pid, ident, seen, loaded, incr0, completed, first,
                   last, bcall>>

Enter(t, ms) == EnterCall(t, ms, MaxCalls)

EnterRace(t, ms) == EnterCall(t, ms, MaxRaceCalls)

\* line 23: read INCR and OR its low 12 bits into epoch
ReadCounter(t) ==
    /\ pc[t] = "line23"
    /\ epoch' = [epoch EXCEPT ![t] = WithCounter(epoch[t], INCR)]
    /\ seen' = [seen EXCEPT ![t] = INCR]
    /\ pc' = [pc EXCEPT ![t] = "line25"]
    /\ UNCHANGED <<INCR, pid, ident, current_ms, loaded, entered, incr0,
                   started, completed, first, last, bcall>>

\* line 25, first half: load INCR
LoadIncr(t) ==
    /\ pc[t] = "line25"
    /\ loaded' = [loaded EXCEPT ![t] = INCR]
    /\ pc' = [pc EXCEPT ![t] = "store"]
    /\ UNCHANGED <<INCR, pid, ident, current_ms, epoch, seen, entered, incr0,
                   started, completed, first, last, bcall>>

\* line 25, second half, and line 27: store INCR, return epoch; the locals
\* of the finished frame are dropped
StoreIncr(t) ==
    /\ pc[t] = "store"
    /\ INCR' = Incremented(loaded[t])
    /\ Returned(CallRecord(t, current_ms[t], entered[t], seen[t], epoch[t]))
    /\ pc' = [pc EXCEPT ![t] = "idle"]
    /\ current_ms' = [current_ms EXCEPT ![t] = None]
    /\ epoch' = [epoch EXCEPT ![t] = None]
    /\ seen' = [seen EXCEPT ![t] = 0]
    /\ loaded' = [loaded EXCEPT ![t] = 0]
    /\ entered' = [entered EXCEPT ![t] = 0]
    /\ UNCHANGED <<pid, ident, incr0, started, bcall>>

\* variant: a clock reading before the epoch is rejected with an error
SeqCallChecked(t, ms) ==
    /\ MsSub(ms, DERAILED_EPOCH) >= 0
    /\ \A u \in Threads : pc[u] = "idle"
    /\ started < MaxSeqCalls
    /\ started' = started + 1
    /\ INCR' = Incremented(INCR)
    /\ Returned(CallRecord(t, ms, INCR, INCR,
                           WithCounter(EpochBits(ms, ident[t], pid), INCR)))
    /\ UNCHANGED <<pid, ident, locals, incr0, bcall>>

\* lines 14-27 run by one thread with no other thread inside the function
SeqCall(t, ms) ==
    /\ \A u \in Threads : pc[u] = "idle"
    /\ started < MaxSeqCalls
    /\ started' = started + 1
    /\ INCR' = Incremented(INCR)
    /\ Returned(CallRecord(t, ms, INCR, INCR,
                           WithCounter(EpochBits(ms, ident[t], pid), INCR)))
    /\ UNCHANGED <<pid, ident, locals, incr0, bcall>>

\* --------------------------------------------------- bucket mapper -----
\* variant: the time field is recovered by a rounding division by 2^22
\* instead of the shift
make_bucketRounded(snowflake, now) ==
    LET timestamp == IF snowflake = None
                     THEN MsSub(now, DERAILED_EPOCH)
                     ELSE RShift22(snowflake)
                          + (IF snowflake[2] >= TwoPow22 \div 2 THEN 1 ELSE 0)
    IN  IntTrueDiv(timestamp, BUCKET_SIZE)

\* lines 30-35; now is the value time.time() returns when it is read
make_bucket(snowflake, now) ==
    LET timestamp == IF snowflake = None
                     THEN MsSub(now, DERAILED_EPOCH)
                     ELSE RShift22(snowflake)
    IN  IntTrueDiv(timestamp, BUCKET_SIZE)

\* Python's range(a, b)
PyRange(a, b) == [start |-> a, stop |-> b]

\* list(r) for a range r: iteration from start while below stop
RECURSIVE RangeFrom(_, _)
RangeFrom(a, b) == IF a >= b THEN <<>> ELSE <<a>> \o RangeFrom(a + 1, b)

RangeList(r) == RangeFrom(r.start, r.stop)

\* variant: the stop of the range is make_bucket(end_id), without the + 1
make_bucketsExclusive(start_id, end_id, now1, now2) ==
    PyRange(make_bucket(start_id, now1), make_bucket(end_id, now2))

\* variant: the two arguments are taken in the other order
make_bucketsSwapped(start_id, end_id, now1, now2) ==
    PyRange(make_bucket(end_id, now2), make_bucket(start_id, now1) + 1)

\* variant: the two buckets are put in ascending order first
make_bucketsOrdered(start_id, end_id, now1, now2) ==
    LET a == make_bucket(start_id, now1)
        b == make_bucket(end_id, now2)
    IN  PyRange(IF a <= b THEN a ELSE b, (IF a <= b THEN b ELSE a) + 1)

\* lines 38-39; now1 and now2 are the clock readings of the two
\* make_bucket calls
make_buckets(start_id, end_id, now1, now2) ==
    PyRange(make_bucket(start_id, now1), make_bucket(end_id, now2) + 1)

\* the clock is read only for an absent argument
ClockFor(arg) == IF arg = None THEN ClockReadings ELSE {None}

\* variant: an absent argument is replaced by a fresh make_snowflake(),
\* which advances INCR
BucketCallViaSnowflake(arg, now) ==
    /\ bcall' = <<[fn |-> "make_bucket", arg |-> arg, now |-> now,
                   result |-> make_bucket(arg, now)]>>
    /\ INCR' = IF arg = None THEN Incremented(INCR) ELSE INCR
    /\ UNCHANGED <<pid, ident, locals, incr0, started, completed,
                   first, last>>

\* a call make_bucket(arg)
BucketCall(arg, now) ==
    /\ bcall' = <<[fn |-> "make_bucket", arg |-> arg, now |-> now,
                   result |-> make_bucket(arg, now)]>>
    /\ UNCHANGED <<INCR, pid, ident, locals, incr0, started, completed,
                   first, last>>

\* a call make_buckets(start_id, end_id)
BucketsCall(start_id, end_id, now1, now2) ==
    /\ bcall' = <<[fn |-> "make_buckets", start |-> start_id,
                   end |-> end_id, now1 |-> now1, now2 |-> now2,
                   result |-> make_buckets(start_id, end_id, now1, now2)]>>
    /\ UNCHANGED <<INCR, pid, ident, locals, incr0, started, completed,
                   first, last>>

\* identifiers the program holds: those returned so far
KnownIds == {r.id : r \in {first[i] : i \in DOMAIN first}
                          \cup {last[i] : i \in DOMAIN last}}

\* snowflakes handed to the bucket mapper directly
TimeFields == {0 - BUCKET_SIZE - 1, 0 - 1, 0, BUCKET_SIZE - 1, BUCKET_SIZE,
               2 * BUCKET_SIZE, 3 * BUCKET_SIZE + 5}
LowBits == {0, 3 * TwoPow17 + 7 * TwoPow12 + 9, TwoPow22 - 1}
Snowflakes == {<<h, l>> : h \in TimeFields, l \in LowBits}

\* ------------------------------------------------- specifications -----
InitCommon ==
    /\ incr0 = INCR
    /\ pid \in Pids
    /\ ident \in {f \in [Threads -> Idents] :
                     \A t, u \in Threads : t < u => f[t] < f[u]}
    /\ pc = [t \in Threads |-> "idle"]
    /\ current_ms = [t \in Threads |-> None]
    /\ epoch = [t \in Threads |-> None]
    /\ seen = [t \in Threads |-> 0]
    /\ loaded = [t \in Threads |-> 0]
    /\ entered = [t \in Threads |-> 0]
    /\ started = 0
    /\ completed = 0
    /\ first = None
    /\ last = None
    /\ bcall = None

\* concurrent callers of make_snowflake, and bucket calls on its results
Init ==
    /\ INCR \in StartIncr
    /\ InitCommon

Next ==
    \/ \E t \in Threads, ms \in ClockReadings : Enter(t, ms)
    \/ \E t \in Threads : ReadCounter(t)
    \/ \E t \in Threads : LoadIncr(t)
    \/ \E t \in Threads : StoreIncr(t)
    \/ \E arg \in KnownIds \cup {None} :
           \E now \in ClockFor(arg) : BucketCall(arg, now)
    \/ \E s \in KnownIds, e \in KnownIds \cup {None} :
           \E now2 \in ClockFor(e) : BucketsCall(s, e, None, now2)

Spec == Init /\ [][Next]_vars

\* one thread calling make_snowflake sequentially
InitSeq ==
    /\ INCR \in StartIncr
    /\ InitCommon

NextSeq == \E ms \in ClockReadings : SeqCall(1, ms)

SpecSeq == InitSeq /\ [][NextSeq]_vars

\* concurrent callers of make_snowflake only, from the counter's initial
\* value
InitRace ==
    /\ INCR = 0
    /\ InitCommon

NextRace ==
    \/ \E t \in Threads, ms \in ClockReadings : EnterRace(t, ms)
    \/ \E t \in Threads : ReadCounter(t)
    \/ \E t \in Threads : LoadIncr(t)
    \/ \E t \in Threads : StoreIncr(t)

SpecRace == InitRace /\ [][NextRace]_vars

\* the bucket mapper applied to arbitrary snowflakes
InitBucket ==
    /\ INCR = 0
    /\ InitCommon

NextBucket ==
    \/ \E arg \in Snowflakes \cup {None} :
           \E now \in ClockFor(arg) : BucketCall(arg, now)
    \/ \E s \in Snowflakes \cup {None}, e \in Snowflakes \cup {None} :
           \E now1 \in ClockFor(s), now2 \in ClockFor(e) :
               BucketsCall(s, e, now1, now2)

SpecBucket == InitBucket /\ [][NextBucket]_vars

\* ---------------------------------------------------- properties -----
\* the records of the calls that returned and are still remembered
Calls == {first[i] : i \in DOMAIN first} \cup {last[i] : i \in DOMAIN last}

AllIdle == \A t \in Threads : pc[t] = "idle"

Elapsed(ms) == MsSub(ms, DERAILED_EPOCH)

\* the four fields laid side by side, by addition
Packed(e, tid, p, c) ==
    <<e, (tid % 32) * TwoPow17 + (p % 32) * TwoPow12 + (c % TwoPow12)>>

\* C1: a call made at a clock reading at or after the epoch, with the
\* counter at c when it is made, returns the time field above bit 22, the
\* thread discriminator at bits 17-21, the process discriminator at bits
\* 12-16 and c mod 4096 at bits 0-11.
C1_SnowflakeValue ==
    \A r \in Calls :
        Elapsed(r.ms) >= 0 =>
            r.id = Packed(Elapsed(r.ms), r.ident, r.pid, r.entry)

C1_Witness ==
    \E r \in Calls :
        /\ Elapsed(r.ms) > 0
        /\ r.entry > TwoPow12
        /\ r.ident > 32
        /\ r.pid > 32
        /\ r.id = Packed(Elapsed(r.ms), r.ident, r.pid, r.entry)

\* C2: starting from INCR = 0, once every started call has returned, INCR
\* equals the number of calls made (no increment is lost).
C2_NoLostIncrement ==
    (incr0 = 0 /\ AllIdle) => INCR = completed

\* C3: an identifier produced at a clock reading at least one millisecond
\* after another one's is the larger of the two, whatever the threads, the
\* discriminators and the counter values of the two calls.
C3_TimeOrdered ==
    \A a, b \in Calls :
        MsSub(b.ms, a.ms) >= 1 => IdLess(a.id, b.id)

C3_Witness ==
    \E a, b \in Calls :
        /\ MsSub(b.ms, a.ms) = 1
        /\ a.thread # b.thread
        /\ a.ident % 32 > b.ident % 32
        /\ a.read = TwoPow12 - 1
        /\ b.read = TwoPow12
        /\ IdLess(a.id, b.id)

\* C4: two identifiers returned to one thread calling sequentially, by
\* calls fewer than 4096 calls apart, are distinct, whatever the clock
\* read.
C4_DistinctWithinWindow ==
    \A a, b \in Calls :
        (a.index < b.index /\ b.index - a.index < TwoPow12)
            => a.id # b.id

C4_Witness ==
    \E a, b \in Calls :
        /\ b.index - a.index = TwoPow12 - 1
        /\ a.ms = b.ms
        /\ a.read % TwoPow12 > b.read % TwoPow12
        /\ a.id # b.id

\* the latest bucket call, when it is a call of fn
IsBucketCall(fn) == bcall # None /\ bcall[1].fn = fn

\* the two bucket indices the latest make_buckets call computed
StartBucket == make_bucket(bcall[1].start, bcall[1].now1)
EndBucket == make_bucket(bcall[1].end, bcall[1].now2)

\* C5: for a non-negative snowflake s, make_bucket(s) is
\* floor((s >> 22) / BUCKET_SIZE) and is non-negative; a time field of one
\* window maps to bucket 1, one millisecond less to bucket 0, and the time
\* field 0 to bucket 0.
C5_BucketIsFloor ==
    (IsBucketCall("make_bucket") /\ bcall[1].arg # None
        /\ bcall[1].arg[1] >= 0) =>
        LET t == bcall[1].arg[1]
            k == bcall[1].result
        IN  /\ k >= 0
            /\ k * BUCKET_SIZE <= t
            /\ t - k * BUCKET_SIZE < BUCKET_SIZE
            /\ (t = 604800000 => k = 1)
            /\ (t = 604799999 => k = 0)
            /\ (t = 0 => k = 0)

C5_Witness ==
    /\ IsBucketCall("make_bucket")
    /\ bcall[1].arg # None
    /\ bcall[1].arg[1] = 604799999
    /\ bcall[1].arg[2] = TwoPow22 - 1
    /\ bcall[1].result = 0

\* C6: when make_bucket(end) >= make_bucket(start), make_buckets(start,
\* end) lists make_bucket(start), make_bucket(start) + 1, ...,
\* make_bucket(end): ascending, contiguous, without duplicates, of length
\* make_bucket(end) - make_bucket(start) + 1.
C6_InclusiveRange ==
    (IsBucketCall("make_buckets") /\ EndBucket >= StartBucket) =>
        LET l == RangeList(bcall[1].result)
        IN  /\ Len(l) = EndBucket - StartBucket + 1
            /\ l[1] = StartBucket
            /\ l[Len(l)] = EndBucket
            /\ \A i \in 1 .. Len(l) - 1 : l[i + 1] = l[i] + 1

C6_Witness ==
    /\ IsBucketCall("make_buckets")
    /\ bcall[1].start # None
    /\ bcall[1].end # None
    /\ EndBucket >= StartBucket + 3
    /\ Len(RangeList(bcall[1].result)) >= 4

\* C7: for a snowflake s, make_buckets(s, s) has exactly one element,
\* make_bucket(s).
C7_SingletonRange ==
    (IsBucketCall("make_buckets") /\ bcall[1].start # None
        /\ bcall[1].start = bcall[1].end) =>
        RangeList(bcall[1].result) = <<make_bucket(bcall[1].start, None)>>

C7_Witness ==
    /\ IsBucketCall("make_buckets")
    /\ bcall[1].start # None
    /\ bcall[1].start = bcall[1].end
    /\ bcall[1].start[2] # 0
    /\ RangeList(bcall[1].result) = <<2>>

\* C8: when make_bucket(end) < make_bucket(start), make_buckets(start, end)
\* is the empty sequence.
C8_EmptyWhenReversed ==
    (IsBucketCall("make_buckets") /\ bcall[1].start # None
        /\ bcall[1].end # None /\ EndBucket < StartBucket) =>
        RangeList(bcall[1].result) = <<>>

C8_Witness ==
    /\ IsBucketCall("make_buckets")
    /\ bcall[1].start # None
    /\ bcall[1].end # None
    /\ EndBucket < StartBucket - 1
    /\ RangeList(bcall[1].result) = <<>>

\* C9: make_bucket(s) depends only on s >> 22: every snowflake with the
\* same time field as s, whatever its low 22 bits, has the bucket
\* make_bucket(s) returned.
C9_OnlyTimeField ==
    (IsBucketCall("make_bucket") /\ bcall[1].arg # None) =>
        \A s2 \in Snowflakes :
            RShift22(s2) = RShift22(bcall[1].arg)
                => make_bucket(s2, None) = bcall[1].result

C9_Witness ==
    /\ IsBucketCall("make_bucket")
    /\ bcall[1].arg # None
    /\ bcall[1].arg[1] = BUCKET_SIZE - 1
    /\ bcall[1].arg[2] = TwoPow22 - 1
    /\ \E s2 \in Snowflakes :
           /\ RShift22(s2) = RShift22(bcall[1].arg)
           /\ s2[2] = 0
           /\ make_bucket(s2, None) = bcall[1].result

\* C10: make_bucket(None) at a clock reading equals make_bucket of any
\* identifier make_snowflake returned at the same clock reading, and
\* make_buckets(start, None) stops after the bucket of the clock reading
\* its make_bucket(None) read.
C10_NoneIsNow ==
    /\ (IsBucketCall("make_bucket") /\ bcall[1].arg = None) =>
           \A r \in Calls :
               r.ms = bcall[1].now
                   => make_bucket(r.id, None) = bcall[1].result
    /\ (IsBucketCall("make_buckets") /\ bcall[1].end = None) =>
           LET nowBucket ==
                   IntTrueDiv(Elapsed(bcall[1].now2), BUCKET_SIZE)
               l == RangeList(bcall[1].result)
           IN  /\ bcall[1].result.stop = nowBucket + 1
               /\ (l # <<>> => l[Len(l)] = nowBucket)

C10_Witness ==
    /\ IsBucketCall("make_bucket")
    /\ bcall[1].arg = None
    /\ bcall[1].result = 1
    /\ \E r \in Calls :
           /\ r.ms = bcall[1].now
           /\ r.id[2] # 0
           /\ make_bucket(r.id, None) = 1

\* C11: two calls of different threads of one process with the same thread
\* discriminator (ident mod 32), the same millisecond and the same counter
\* value read at line 23 return the same identifier; line 23 and line 25
\* being separate unguarded steps, there is an interleaving in which two
\* concurrent calls do read the same counter value (the witness).
C11_SameReadSameId ==
    \A a, b \in Calls :
        (a.thread # b.thread /\ a.ident % 32 = b.ident % 32
            /\ a.ms = b.ms /\ a.read = b.read) => a.id = b.id

C11_Witness ==
    \E a, b \in Calls :
        /\ a.thread # b.thread
        /\ a.ident # b.ident
        /\ a.ident % 32 = b.ident % 32
        /\ a.ms = b.ms
        /\ a.read = b.read
        /\ a.index # b.index
        /\ a.id = b.id

\* C12: for one thread calling sequentially, two calls 4096 calls apart
\* that read the same millisecond return the same integer, and two calls
\* return the same integer only if their indices differ by a non-zero
\* multiple of 4096 and their clock readings are equal.
C12_WrapCollision ==
    \A a, b \in Calls :
        a.index < b.index =>
            /\ (b.index - a.index = TwoPow12 /\ a.ms = b.ms) => a.id = b.id
            /\ a.id = b.id =>
                   ((b.index - a.index) % TwoPow12 = 0 /\ a.ms = b.ms)

C12_Witness ==
    \E a, b \in Calls :
        /\ b.index - a.index = TwoPow12
        /\ a.ms = b.ms
        /\ a.id = b.id

\* C13: INCR never decreases from one state to the next, in any
\* interleaving of concurrent make_snowflake calls.
C13_CounterMonotonic == [][INCR' >= INCR]_vars

\* C14: an identifier returned for a clock reading at or after the epoch
\* decodes to its four fields: id >> 22 is the elapsed time, (id >> 17)
\* mod 32 the thread discriminator, (id >> 12) mod 32 the process
\* discriminator and id mod 4096 the counter mod 4096.
C14_FieldsRoundTrip ==
    \A r \in Calls :
        Elapsed(r.ms) >= 0 =>
            /\ RShift22(r.id) = Elapsed(r.ms)
            /\ (r.id[2] \div TwoPow17) % 32 = r.ident % 32
            /\ (r.id[2] \div TwoPow12) % 32 = r.pid % 32
            /\ r.id[2] % TwoPow12 = r.read % TwoPow12

C14_Witness ==
    \E r \in Calls :
        /\ Elapsed(r.ms) = BUCKET_SIZE
        /\ r.read = 2 * TwoPow12 - 1
        /\ r.ident = 35
        /\ r.pid = 41
        /\ RShift22(r.id) = BUCKET_SIZE
        /\ (r.id[2] \div TwoPow17) % 32 = 3
        /\ (r.id[2] \div TwoPow12) % 32 = 9
        /\ r.id[2] % TwoPow12 = TwoPow12 - 1

\* C15 as stated: make_bucket(None) is floor((now_ms - DERAILED_EPOCH) /
\* BUCKET_SIZE) for every clock reading, also before the epoch.
C15_NoneIsFloor ==
    (IsBucketCall("make_bucket") /\ bcall[1].arg = None) =>
        LET e == Elapsed(bcall[1].now)
            k == bcall[1].result
        IN  k * BUCKET_SIZE <= e /\ e - k * BUCKET_SIZE < BUCKET_SIZE

\* C15 as amended: make_bucket(None) is (now_ms - DERAILED_EPOCH) /
\* BUCKET_SIZE truncated toward zero: the floor for a clock reading at or
\* after the epoch, the ceiling for a clock reading before the epoch.
C15_NoneIsTruncated ==
    (IsBucketCall("make_bucket") /\ bcall[1].arg = None) =>
        LET e == Elapsed(bcall[1].now)
            k == bcall[1].result
        IN  /\ e >= 0 =>
                   (k * BUCKET_SIZE <= e /\ e - k * BUCKET_SIZE < BUCKET_SIZE)
            /\ e < 0 =>
                   (e <= k * BUCKET_SIZE /\ k * BUCKET_SIZE - e < BUCKET_SIZE)

C15_Witness ==
    /\ IsBucketCall("make_bucket")
    /\ bcall[1].arg = None
    /\ Elapsed(bcall[1].now) = 0 - 1
    /\ bcall[1].result = 0

\* C16: a make_bucket or make_buckets call leaves INCR, the calls in
\* flight and the identifiers returned unchanged, and INCR changes only in
\* the store of make_snowflake's INCR += 1.
C16_BucketFrame ==
    [][/\ bcall' # bcall =>
              UNCHANGED <<INCR, locals, started, completed, first, last>>
       /\ INCR' # INCR =>
              \E t \in Threads : pc[t] = "store" /\ pc'[t] = "idle"]_vars

C16_Witness ==
    /\ IsBucketCall("make_buckets")
    /\ first # None
    /\ bcall[1].start = first[1].id
    /\ bcall[1].end = None
    /\ INCR = incr0 + 1
    /\ \E t \in Threads : pc[t] = "store" /\ seen[t] = incr0 + 1

\* C17: make_snowflake has no error outcome: a call can be made and
\* returns at every clock reading, also before the epoch (enabledness is
\* evaluated before each of the first MaxCalls calls of a run); every call
\* made has returned and has incremented INCR by 1; a call that read a
\* clock before the epoch returned a negative identifier.
C17_NoErrorOutcome ==
    /\ started < MaxCalls =>
           \A ms \in ClockReadings : ENABLED SeqCall(1, ms)
    /\ completed = started
    /\ INCR = incr0 + completed
    /\ \A r \in Calls : Elapsed(r.ms) < 0 => IdLess(r.id, <<0, 0>>)

C17_Witness ==
    \E r \in Calls :
        /\ Elapsed(r.ms) < 0
        /\ r.read > TwoPow12
        /\ IdLess(r.id, <<0, 0>>)
        /\ INCR = incr0 + completed

\* a <= b on identifiers
IdLeq(a, b) == a = b \/ IdLess(a, b)

\* C18: make_bucket is monotone non-decreasing over all integer
\* snowflakes, and for start <= end make_buckets(start, end) is non-empty
\* and contains make_bucket(s) for every snowflake s with
\* start <= s <= end.
C18_MonotoneCover ==
    /\ (IsBucketCall("make_bucket") /\ bcall[1].arg # None) =>
           \A s \in Snowflakes :
               /\ IdLeq(bcall[1].arg, s)
                      => bcall[1].result <= make_bucket(s, None)
               /\ IdLeq(s, bcall[1].arg)
                      => make_bucket(s, None) <= bcall[1].result
    /\ (IsBucketCall("make_buckets") /\ bcall[1].start # None
           /\ bcall[1].end # None
           /\ IdLeq(bcall[1].start, bcall[1].end)) =>
           LET l == RangeList(bcall[1].result)
           IN  /\ l # <<>>
               /\ \A s \in Snowflakes :
                      (IdLeq(bcall[1].start, s) /\ IdLeq(s, bcall[1].end))
                          => \E i \in DOMAIN l : l[i] = make_bucket(s, None)

C18_Witness ==
    /\ IsBucketCall("make_buckets")
    /\ bcall[1].start # None
    /\ bcall[1].end # None
    /\ bcall[1].start[1] < 0 - BUCKET_SIZE
    /\ bcall[1].end[1] > 3 * BUCKET_SIZE
    /\ RangeList(bcall[1].result) = <<0 - 1, 0, 1, 2, 3>>
====
